---- MODULE Spec2Model ----
(***************************************************************************)
(* Model of fhda-pooled-ldap: src/src/PooledLdapConnection.js and          *)
(* src/src/EventLogger.js.                                                 *)
(*                                                                         *)
(* The connection pool itself is the pool2 library, which the class        *)
(* configures (constructor, lines 74-164) and drives through acquire,      *)
(* release, remove and stats.  pool2 is an external collaborator: it is    *)
(* modelled by the contract the class and its tests rely on (a request     *)
(* queue, idle reuse, creation below max, removal, the stats snapshot,     *)
(* and end: no new requests, then every connection through the dispose     *)
(* hook, then the callback).                                               *)
(* Everything above the pool (the connection factory and its hooks,        *)
(* withConnection, testCredential, isCredentialFailedError, the directory  *)
(* operations, search, encodeCredential) and the EventLogger are           *)
(* translated from the code.                                               *)
(*                                                                         *)
(* Callers are modelled as tasks.  Every step is one callback of the       *)
(* single-threaded event loop, so steps of different tasks interleave      *)
(* only at the suspension points of the code.  EventLogger.log calls       *)
(* (lines 118, 127, 157, 427, 432, 467) change no state of the pool or of  *)
(* a call as long as the 'log' listeners return normally.  A listener      *)
(* that throws is an input of SpecOperations, for the success log event    *)
(* of add, delete and modify, and of SpecReleaseLog, for the log event of  *)
(* the release step of withConnection; the other specifications take       *)
(* listeners that return.                                                  *)
(*                                                                         *)
(* Specifications: Spec (acquire, withConnection, testCredential on the    *)
(* pool), SpecClassify (isCredentialFailedError), SpecEncode               *)
(* (encodeCredential), SpecOperations (add, compare, delete, modify,       *)
(* modifySimple, changeCredential on the pool), SpecSearch (search on the  *)
(* pool), SpecLogger (the EventLogger), SpecBacklog (the EventLogger with  *)
(* 99 events buffered), SpecLifecycle (Spec with a repeated dispose and    *)
(* shutdown), SpecReleaseLog (Spec with a 'log' listener that may throw    *)
(* in the release step of withConnection).                                 *)
(***************************************************************************)
EXTENDS Integers, Sequences, FiniteSets, TLC

\* ------------------------------------------------------------------ bounds
\* Number of concurrent callers.
NumTasks == 2
\* The pool option max (defaultPoolOptions.max is OS.cpus().length).
PoolMax == 1
\* Connections the factory may create in one run (ids are never reused).
MaxCreated == 2
\* Longest provider message, in tokens.
MaxMsgLen == 3
\* Most matched entries one search stream delivers.
MaxEntries == 2
\* Longest credential, in UTF-16 code units.
MaxCredLen == 2
\* Most triples one modifySimple call is given.
MaxTriples == 2
\* Functions the application may register as 'log' listeners.
NumListeners == 2
\* Log events produced in one run of the logger.
MaxEmits == 3
\* Events already buffered when a run that fills the buffer begins: the
\* largest length at which emit (line 86) does not yet evict.
Backlog == 99

Task == 1..NumTasks
Conn == 1..MaxCreated
Listener == 1..NumListeners
\* let clientInstance; (line 451): no client yet.
NoConn == 0

\* ------------------------------------------------------------------ errors
\* A provider message is a sequence of tokens; two tokens spell the Sun ONE
\* message, one token is the Active Directory marker, "x" is any other text.
Token == {"Invalid", "Credentials", "DSID-0C0903D9", "x"}
InvalidCredentialsMessage == <<"Invalid", "Credentials">>
ActiveDirectoryMarker == <<"DSID-0C0903D9">>
\* LDAP result code invalidCredentials.
InvalidCredentialsCode == 49
\* The codes an error may carry: invalidCredentials, another LDAP result code
\* (32, noSuchObject), and none (0: a plain Error such as ECONNREFUSED).
Codes == {InvalidCredentialsCode, 32, 0}

\* An error object: code, and lde_message when hasMessage (else undefined).
ErrorRecord(code, hasMessage, message) ==
    [code |-> code, hasMessage |-> hasMessage, lde_message |-> message]
NoError == ErrorRecord(0, FALSE, <<>>)

RECURSIVE SeqsUpTo(_)
SeqsUpTo(n) ==
    IF n = 0 THEN {<<>>}
    ELSE LET shorter == SeqsUpTo(n - 1)
         IN  shorter \cup {Append(s, k) : s \in {x \in shorter : Len(x) = n - 1}, k \in Token}

Messages == SeqsUpTo(MaxMsgLen)

\* String.prototype.indexOf: first position (0-based) where needle occurs in
\* text, or -1.
IndexOf(text, needle) ==
    LET hits == {i \in 0..(Len(text) - Len(needle)) :
                    SubSeq(text, i + 1, i + Len(needle)) = needle}
    IN  IF hits = {} THEN -1
        ELSE CHOOSE i \in hits : \A j \in hits : i <= j

\* JavaScript truthiness of a number and of a string.
TruthyNumber(n) == n # 0
TruthyString(s) == s # <<>>

\* The test the code applies to the result of indexOf (line 312).
MarkerTest(index) == TruthyNumber(index)

\* isCredentialFailedError (lines 300-317).
isCredentialFailedError(error) ==
    IF error.code = InvalidCredentialsCode THEN TRUE
    ELSE IF error.hasMessage /\ TruthyString(error.lde_message)
         THEN IF error.lde_message = InvalidCredentialsMessage THEN TRUE
              ELSE IF MarkerTest(IndexOf(error.lde_message, ActiveDirectoryMarker))
                   THEN TRUE
                   ELSE FALSE
         ELSE FALSE

\* ------------------------------------------------------------------ state
VARIABLES
    connState,     \* Conn -> none | binding | idle | acquired | disposed | failed
    holder,        \* Conn -> the set of tasks the connection is handed to
    destroyCalls,  \* Conn -> number of ldapClient.destroy() calls
    requests,      \* the pool's queue of pending acquire requests (tasks)
    created,       \* number of clients the factory has created
    tasks,         \* Task -> the call the task is making
    event,         \* what the last step settled (NoEvent when nothing)
    monitor,       \* observer of the sequence acquire, release, acquire
    probe,         \* input and verdict of a direct isCredentialFailedError call
    codec,         \* input and result of a direct encodeCredential call
    streams,       \* Task -> the search of the task: its stream and its promise
    invoked,       \* Task -> the provider calls the operation of the task has made
    eventBuffer,   \* EventLogger.eventBuffer: the events waiting for a listener
    listeners,     \* the 'log' listeners of the EventLogger, in registration order
    received,      \* listener -> the events it was called with, in order
    emitted,       \* number of log events produced so far
    binds,         \* Conn -> the identities the client was asked to bind as, in order
    ending         \* shutdown(): how far it is, and the connections it disposed of

vars == <<connState, holder, destroyCalls, requests, created, tasks, event, monitor, probe,
          codec, streams, invoked, eventBuffer, listeners, received, emitted, binds, ending>>
poolVars == <<connState, holder, destroyCalls, requests, created>>
loggerVars == <<eventBuffer, listeners, received, emitted>>
\* What the pool and the calls of withConnection and acquire leave alone.
lifeVars == <<binds, ending>>
auxVars == <<codec, streams, invoked, loggerVars, lifeVars>>

\* shutdown() has not been called.
NotEnding == [state |-> "open", disposed |-> {}]

\* ------------------------------------------------------------------ promises
Pending == [state |-> "pending", value |-> "none", error |-> NoError]
Resolved(v) == [state |-> "resolved", value |-> v, error |-> NoError]
Rejected(v, e) == [state |-> "rejected", value |-> v, error |-> e]

\* The bind outcomes testCredential is driven with: success, or an error.
BindOk == [ok |-> TRUE, error |-> NoError]
BindFailed(e) == [ok |-> FALSE, error |-> e]
BindInputs ==
    {BindOk} \cup
    {BindFailed(e) : e \in {ErrorRecord(InvalidCredentialsCode, FALSE, <<>>),
                            ErrorRecord(32, TRUE, InvalidCredentialsMessage),
                            ErrorRecord(32, TRUE, <<"x", "DSID-0C0903D9">>),
                            ErrorRecord(32, TRUE, <<"x">>),
                            ErrorRecord(0, FALSE, <<>>)}}

\* A task between calls.  pc: idle | queued | granted | failed | running |
\* holding | stale; error is the error a failed acquire was rejected with.
IdleTask ==
    [pc |-> "idle", kind |-> "none", dispose |-> FALSE, conn |-> NoConn,
     error |-> "none"]

\* What the last step settled: the call, its connection, the promise of the
\* callback (cb), the promise handed to the caller (result), whether the bind
\* of testCredential was answered with an error (bind) and how often the
\* call released (rel) and disposed of (disp) its connection.
NoEvent ==
    [type |-> "none", kind |-> "none", dispose |-> FALSE,
     conn |-> NoConn, bind |-> BindOk, cb |-> Pending, result |-> Pending,
     rel |-> 0, disp |-> 0]

\* ------------------------------------------------------------------ pool
Members == {c \in Conn : connState[c] \in {"idle", "acquired"}}
Idle == {c \in Conn : connState[c] = "idle"}
Acquired == {c \in Conn : connState[c] = "acquired"}
Binding == {c \in Conn : connState[c] = "binding"}

\* getPoolStatistics (lines 289-291): the pool's stats() snapshot.
getPoolStatistics ==
    [min |-> 0,
     max |-> PoolMax,
     allocated |-> Cardinality(Members),
     available |-> PoolMax - (Cardinality(Members) - Cardinality(Idle)),
     queued |-> Len(requests)]

Held == {c \in Conn : holder[c] # {}}

\* Observer of the sequence acquire, release, acquire: the stage reached, the
\* connection and the creation count of the first acquire, and how many
\* creations the sequence has added when its second acquire is served.
NoSequence == [stage |-> "none", conn |-> NoConn, n |-> 0, delta |-> 0]
Observe(what, c) ==
    CASE what = "grant" /\ monitor.stage = "requested" ->
            [monitor EXCEPT !.stage = "reused", !.conn = c, !.delta = created - monitor.n]
      [] what = "grant" /\ monitor.stage # "requested" ->
            [stage |-> "acquired", conn |-> c, n |-> created, delta |-> 0]
      [] what = "release" /\ monitor.stage = "acquired" /\ monitor.conn = c ->
            [monitor EXCEPT !.stage = "released"]
      [] what = "request" /\ monitor.stage = "released" ->
            [monitor EXCEPT !.stage = "requested"]
      [] what = "create" /\ monitor.stage = "requested" ->
            [monitor EXCEPT !.stage = "created", !.delta = 1]
      [] OTHER -> NoSequence

\* The pool creates a client only for a waiting request that no idle
\* connection can serve, and only below max (constructor, lines 74-83).
RoomBeyondMax == Cardinality(Members) + Cardinality(Binding) <= PoolMax
RoomInPool == Cardinality(Members) + Cardinality(Binding) < PoolMax
NeedsNewClient == requests # <<>> /\ Idle = {}

\* The connections the pool may hand to the head request.
AnyMember(c) == connState[c] \in {"idle", "acquired"}
Grantable(c) == connState[c] = "idle"

\* pool.acquireAsync() (lines 172-174): the request joins the pool's queue.
acquire(t) == requests' = Append(requests, t)

\* The identities a client binds as: bindDn with bindCredential, given to the
\* constructor, and the dn with the credential testCredential is called with.
PoolIdentity == "bindDn"
TestedIdentity == "dn"

\* The factory (lines 84-131) creates a client and starts its bind.
AllocateResource ==
    /\ NeedsNewClient
    /\ RoomInPool
    /\ created < MaxCreated
    /\ created' = created + 1
    /\ connState' = [connState EXCEPT ![created + 1] = "binding"]
    /\ binds' = [binds EXCEPT ![created + 1] = Append(@, PoolIdentity)]
    /\ monitor' = Observe("create", created + 1)
    /\ event' = NoEvent
    /\ UNCHANGED <<holder, destroyCalls, requests, tasks, probe, codec, streams, invoked,
                   loggerVars, ending>>

\* The bind callback (lines 126-131) without error: the client joins the pool.
BindSucceeds(c) ==
    /\ connState[c] = "binding"
    /\ connState' = [connState EXCEPT ![c] = "idle"]
    /\ monitor' = Observe("bound", c)
    /\ event' = NoEvent
    /\ UNCHANGED <<holder, destroyCalls, requests, created, tasks, probe, auxVars>>

CreationFailed(c) ==
    [type |-> "bindFailed", conn |-> c,
     request |-> IF requests # <<>> THEN Head(requests) ELSE 0]

\* A bind callback that hands the client to the pool whatever the error.
BindFailsUnnoticed(c) ==
    /\ connState[c] = "binding"
    /\ connState' = [connState EXCEPT ![c] = "idle"]
    /\ monitor' = Observe("bound", c)
    /\ event' = CreationFailed(c)
    /\ UNCHANGED <<holder, destroyCalls, requests, created, tasks, probe, auxVars>>

\* The bind callback with an error: the client never joins the pool and the
\* request that waited for it, if any, fails with the bind error.
BindFails(c) ==
    /\ connState[c] = "binding"
    /\ connState' = [connState EXCEPT ![c] = "failed"]
    /\ IF requests # <<>>
       THEN /\ requests' = Tail(requests)
            /\ tasks' = [tasks EXCEPT ![Head(requests)].pc = "failed",
                                      ![Head(requests)].error = "BindFailure"]
       ELSE UNCHANGED <<requests, tasks>>
    /\ monitor' = Observe("bindFailed", c)
    /\ event' = CreationFailed(c)
    /\ UNCHANGED <<holder, destroyCalls, created, probe, auxVars>>

\* The pool serves the head request with an idle connection.
Dispatch(c) ==
    /\ requests # <<>>
    /\ Grantable(c)
    /\ connState' = [connState EXCEPT ![c] = "acquired"]
    /\ holder' = [holder EXCEPT ![c] = @ \cup {Head(requests)}]
    /\ requests' = Tail(requests)
    /\ tasks' = [tasks EXCEPT ![Head(requests)].pc = "granted",
                              ![Head(requests)].conn = c]
    /\ monitor' = Observe("grant", c)
    /\ event' = NoEvent
    /\ UNCHANGED <<destroyCalls, created, probe, auxVars>>

\* requestTimeout (line 81) elapses for a queued request.
RequestTimeout(t) ==
    /\ \E i \in 1..Len(requests) : requests[i] = t
    /\ requests' = SelectSeq(requests, LAMBDA x : x # t)
    /\ tasks' = [tasks EXCEPT ![t].pc = "failed",
                              ![t].error = "AcquisitionTimeout"]
    /\ monitor' = Observe("timeout", NoConn)
    /\ event' = NoEvent
    /\ UNCHANGED <<connState, holder, destroyCalls, created, probe, auxVars>>

\* A dispose hook that calls back without destroying the client.
DisposeHookKeepsClient(c) == UNCHANGED destroyCalls
\* The pool's dispose hook (lines 156-162): destroy the client.
DisposeHook(c) == destroyCalls' = [destroyCalls EXCEPT ![c] = @ + 1]

\* pool.release(client): an acquired member becomes idle; for anything else
\* (not a member, or idle already) the pool reports an error and changes
\* nothing.
ReleaseAnything(c) ==
    connState' = IF connState[c] \in {"acquired", "disposed"}
                 THEN [connState EXCEPT ![c] = "idle"] ELSE connState
PoolRelease(c) ==
    connState' = IF connState[c] = "acquired"
                 THEN [connState EXCEPT ![c] = "idle"] ELSE connState

\* pool.remove(client): a member leaves the pool and the dispose hook runs.
PoolRemove(c) ==
    IF connState[c] \in {"idle", "acquired"}
    THEN /\ connState' = [connState EXCEPT ![c] = "disposed"]
         /\ DisposeHook(c)
    ELSE UNCHANGED <<connState, destroyCalls>>

\* client.release with the call of this.release(client) left out.
ClientReleaseLogsOnly(t, c) ==
    /\ holder' = [holder EXCEPT ![c] = @ \ {t}]
    /\ monitor' = Observe("release", c)
    /\ UNCHANGED <<connState, destroyCalls, requests, created>>
\* client.release calling this.remove(client), as client.dispose does.
ClientReleaseRemoves(t, c) ==
    /\ PoolRemove(c)
    /\ holder' = [holder EXCEPT ![c] = @ \ {t}]
    /\ monitor' = Observe("release", c)
    /\ UNCHANGED <<requests, created>>
\* client.release (lines 117-120), called by task t.
ClientRelease(t, c) ==
    /\ PoolRelease(c)
    /\ holder' = [holder EXCEPT ![c] = @ \ {t}]
    /\ monitor' = Observe("release", c)
    /\ UNCHANGED <<destroyCalls, requests, created>>

\* client.dispose destroying the client itself before it tells the pool.
ClientDisposeDestroys(t, c) ==
    /\ connState' = IF connState[c] \in {"idle", "acquired"}
                    THEN [connState EXCEPT ![c] = "disposed"] ELSE connState
    /\ DisposeHook(c)
    /\ holder' = [holder EXCEPT ![c] = @ \ {t}]
    /\ monitor' = Observe("remove", c)
    /\ UNCHANGED <<requests, created>>
\* client.dispose calling this.release(client), as client.release does.
ClientDisposeReleases(t, c) ==
    /\ PoolRelease(c)
    /\ holder' = [holder EXCEPT ![c] = @ \ {t}]
    /\ monitor' = Observe("remove", c)
    /\ UNCHANGED <<destroyCalls, requests, created>>
\* client.dispose (lines 112-114), called by task t.
ClientDispose(t, c) ==
    /\ PoolRemove(c)
    /\ holder' = [holder EXCEPT ![c] = @ \ {t}]
    /\ monitor' = Observe("remove", c)
    /\ UNCHANGED <<requests, created>>

\* idleTimeout (line 77) elapses for an idle connection: the pool removes it.
IdleTimeout(c) ==
    /\ connState[c] = "idle"
    /\ PoolRemove(c)
    /\ monitor' = Observe("idleTimeout", c)
    /\ event' = NoEvent
    /\ UNCHANGED <<holder, requests, created, tasks, probe, auxVars>>

\* ------------------------------------------------------------------ callers
\* Every action below is one turn of the event loop: the callback that starts
\* it and the promise handlers that run before the next I/O callback.
\* A caller not inside a call starts one; the pool takes requests until
\* shutdown() is called.
CanStart(t) == tasks[t].pc \in {"idle", "stale"} /\ ending.state = "open"

Settled(kind, dispose, c, bind, cb, result, rel, disp) ==
    [type |-> "settled", kind |-> kind, dispose |-> dispose,
     conn |-> c, bind |-> bind, cb |-> cb, result |-> result,
     rel |-> rel, disp |-> disp]

\* How often connection c is released, and disposed of, by the step.
Releases(c) == IF connState[c] = "acquired" /\ connState'[c] = "idle" THEN 1 ELSE 0
Disposals(c) == destroyCalls'[c] - destroyCalls[c]

\* A caller invokes acquire() itself, as the tests do (ModuleTests.js, 29-39).
StartAcquire(t) ==
    /\ CanStart(t)
    /\ tasks' = [tasks EXCEPT ![t] = [IdleTask EXCEPT !.pc = "queued", !.kind = "acquire"]]
    /\ acquire(t)
    /\ monitor' = Observe("request", NoConn)
    /\ event' = NoEvent
    /\ UNCHANGED <<connState, holder, destroyCalls, created, probe, auxVars>>

\* withConnection(callback, dispose) (lines 450-453) up to this.acquire().
StartWithConnection(t, dispose) ==
    /\ CanStart(t)
    /\ tasks' = [tasks EXCEPT ![t] = [IdleTask EXCEPT !.pc = "queued",
                                                      !.kind = "withConnection",
                                                      !.dispose = dispose]]
    /\ acquire(t)
    /\ monitor' = Observe("request", NoConn)
    /\ event' = NoEvent
    /\ UNCHANGED <<connState, holder, destroyCalls, created, probe, auxVars>>

\* The dispose argument testCredential passes to withConnection (line 440).
TestCredentialReleases == FALSE
TestCredentialDisposes == TRUE

\* testCredential(dn, credential) (lines 421-424, 440) up to this.acquire().
StartTestCredential(t) ==
    /\ CanStart(t)
    /\ tasks' = [tasks EXCEPT ![t] = [IdleTask EXCEPT !.pc = "queued",
                                                      !.kind = "testCredential",
                                                      !.dispose = TestCredentialDisposes]]
    /\ acquire(t)
    /\ monitor' = Observe("request", NoConn)
    /\ event' = NoEvent
    /\ UNCHANGED <<connState, holder, destroyCalls, created, probe, auxVars>>

\* .finally (line 460) runs its handler however the promise before it settled.
FinallyOnSuccessOnly(cb) == cb.state = "resolved"
FinallyRuns(cb) == cb.state \in {"resolved", "rejected"}

\* The finally-handler of withConnection (lines 460-470) and the settling of
\* the promise withConnection returned; cb is the promise before .finally.
\* After a failed acquire clientInstance is undefined and the handler throws.
Finally(t, bind, cb) ==
    LET c == tasks[t].conn
        d == tasks[t].dispose
        k == tasks[t].kind
    IN  /\ tasks' = [tasks EXCEPT ![t] = IdleTask]
        /\ IF ~FinallyRuns(cb)
           THEN /\ UNCHANGED <<poolVars, monitor>>
                /\ event' = Settled(k, d, c, bind, cb, cb, 0, 0)
           ELSE IF c = NoConn
           THEN /\ UNCHANGED <<poolVars, monitor>>
                /\ event' = Settled(k, d, c, bind, cb, Rejected("TypeError", NoError), 0, 0)
           ELSE IF d
           THEN /\ ClientDispose(t, c)
                /\ event' = Settled(k, d, c, bind, cb, cb, Releases(c), Disposals(c))
           ELSE /\ ClientRelease(t, c)
                /\ event' = Settled(k, d, c, bind, cb, cb, Releases(c), Disposals(c))
        /\ UNCHANGED probe

\* The then-handler of withConnection (lines 453-459) keeps the client and
\* runs the callback, which returns a promise.  The callback of testCredential
\* (line 425) calls client.bindAsync(dn, credential).
ThenCallbackReturns(t) ==
    /\ tasks[t].pc = "granted"
    /\ tasks[t].kind \in {"withConnection", "testCredential"}
    /\ tasks' = [tasks EXCEPT ![t].pc = "running"]
    /\ binds' = IF tasks[t].kind = "testCredential"
                THEN [binds EXCEPT ![tasks[t].conn] = Append(@, TestedIdentity)]
                ELSE binds
    /\ event' = NoEvent
    /\ UNCHANGED <<poolVars, monitor, probe, codec, streams, invoked, loggerVars, ending>>

\* The callback throws instead: the promise of the then-handler is rejected.
ThenCallbackThrows(t) ==
    /\ tasks[t].pc = "granted"
    /\ tasks[t].kind = "withConnection"
    /\ Finally(t, BindOk, Rejected("CallbackThrew", NoError))
    /\ UNCHANGED auxVars

\* The promise the callback of withConnection returned resolves or rejects.
OperationSettles(t, ok) ==
    /\ tasks[t].pc = "running"
    /\ tasks[t].kind = "withConnection"
    /\ Finally(t, BindOk,
               IF ok THEN Resolved("value") ELSE Rejected("OperationError", NoError))
    /\ UNCHANGED auxVars

\* The promise the callback returned settles while a 'log' listener is
\* registered that throws: in the finally-handler, EventLogger.log (line 467)
\* calls the listener (EventLogger.js, line 108), the exception leaves the
\* handler before clientInstance.release() (line 468) is reached, and the
\* promise of withConnection is rejected with it.
OperationSettlesListenerThrows(t, ok) ==
    LET cb == IF ok THEN Resolved("value") ELSE Rejected("OperationError", NoError)
    IN  /\ tasks[t].pc = "running"
        /\ tasks[t].kind = "withConnection"
        /\ ~tasks[t].dispose
        /\ listeners # <<>>
        /\ tasks' = [tasks EXCEPT ![t] = IdleTask]
        /\ event' = Settled("withConnection", FALSE, tasks[t].conn, BindOk, cb,
                            Rejected("ListenerThrew", NoError), 0, 0)
        /\ UNCHANGED <<poolVars, monitor, probe, auxVars>>

\* What the promise chain of testCredential makes of the bind (lines 425-439).
TestCredentialOutcome(bind) ==
    IF bind.ok THEN Resolved("true")
    ELSE IF isCredentialFailedError(bind.error)
         THEN Rejected("CredentialValidationFailed", NoError)
         ELSE Rejected("BindError", bind.error)

\* The directory answers the bind of testCredential.
BindAnswered(t, bind) ==
    /\ tasks[t].pc = "running"
    /\ tasks[t].kind = "testCredential"
    /\ Finally(t, bind, TestCredentialOutcome(bind))
    /\ UNCHANGED auxVars

\* The acquire of withConnection was rejected: the then-handler is skipped.
AcquireRejected(t) ==
    /\ tasks[t].pc = "failed"
    /\ tasks[t].kind \in {"withConnection", "testCredential"}
    /\ Finally(t, BindOk, Rejected(tasks[t].error, NoError))
    /\ UNCHANGED auxVars

\* The caller of acquire() receives the client.
AcquireResolves(t) ==
    /\ tasks[t].pc = "granted"
    /\ tasks[t].kind = "acquire"
    /\ tasks' = [tasks EXCEPT ![t].pc = "holding"]
    /\ event' = NoEvent
    /\ UNCHANGED <<poolVars, monitor, probe, auxVars>>

\* The caller of acquire() receives the error.
AcquireFails(t) ==
    /\ tasks[t].pc = "failed"
    /\ tasks[t].kind = "acquire"
    /\ tasks' = [tasks EXCEPT ![t] = IdleTask]
    /\ event' = Settled("acquire", FALSE, NoConn, BindOk, Pending,
                        Rejected(tasks[t].error, NoError), 0, 0)
    /\ UNCHANGED <<poolVars, monitor, probe, auxVars>>

\* The caller gives the client back: client.release().
UserRelease(t) ==
    /\ tasks[t].pc = "holding"
    /\ ClientRelease(t, tasks[t].conn)
    /\ tasks' = [tasks EXCEPT ![t] = IdleTask]
    /\ event' = Settled("release", FALSE, tasks[t].conn, BindOk, Pending, Pending,
                        Releases(tasks[t].conn), Disposals(tasks[t].conn))
    /\ UNCHANGED <<probe, auxVars>>

\* The caller discards the client: client.dispose(); it keeps the reference.
UserDispose(t) ==
    /\ tasks[t].pc = "holding"
    /\ ClientDispose(t, tasks[t].conn)
    /\ tasks' = [tasks EXCEPT ![t].pc = "stale"]
    /\ event' = Settled("dispose", TRUE, tasks[t].conn, BindOk, Pending, Pending,
                        Releases(tasks[t].conn), Disposals(tasks[t].conn))
    /\ UNCHANGED <<probe, auxVars>>

\* The caller calls client.release() on the client it has disposed of.
UserReleaseAfterDispose(t) ==
    /\ tasks[t].pc = "stale"
    /\ ClientRelease(t, tasks[t].conn)
    /\ tasks' = [tasks EXCEPT ![t] = IdleTask]
    /\ event' = Settled("staleRelease", FALSE, tasks[t].conn, BindOk, Pending, Pending,
                        Releases(tasks[t].conn), Disposals(tasks[t].conn))
    /\ UNCHANGED <<probe, auxVars>>

\* The caller calls client.dispose() on the client it has disposed of.
UserDisposeAfterDispose(t) ==
    /\ tasks[t].pc = "stale"
    /\ ClientDispose(t, tasks[t].conn)
    /\ tasks' = [tasks EXCEPT ![t] = IdleTask]
    /\ event' = Settled("staleDispose", TRUE, tasks[t].conn, BindOk, Pending, Pending,
                        Releases(tasks[t].conn), Disposals(tasks[t].conn))
    /\ UNCHANGED <<probe, auxVars>>

\* shutdown() (lines 407-409): this.pool.endAsync().  The pool takes no more
\* requests; its promise resolves 'when the pool has disposed all of its
\* resources' (line 405).
Shutdown ==
    /\ ending.state = "open"
    /\ ending' = [ending EXCEPT !.state = "ending"]
    /\ event' = NoEvent
    /\ UNCHANGED <<poolVars, tasks, monitor, probe, codec, streams, invoked, loggerVars, binds>>

\* The ending pool has served its requests and has its connections back.
Drained == requests = <<>> /\ Binding = {} /\ Acquired = {}

\* The ending pool removes a connection: the dispose hook runs.
EndDisposes(c) ==
    /\ ending.state = "ending"
    /\ Drained
    /\ connState[c] = "idle"
    /\ PoolRemove(c)
    /\ ending' = [ending EXCEPT !.disposed = @ \cup {c}]
    /\ monitor' = Observe("end", c)
    /\ event' = NoEvent
    /\ UNCHANGED <<holder, requests, created, tasks, probe, codec, streams, invoked,
                   loggerVars, binds>>

\* Every dispose hook has called back: the promise of shutdown() resolves.
EndResolves ==
    /\ ending.state = "ending"
    /\ Drained
    /\ Idle = {}
    /\ ending' = [ending EXCEPT !.state = "resolved"]
    /\ event' = NoEvent
    /\ UNCHANGED <<poolVars, tasks, monitor, probe, codec, streams, invoked, loggerVars, binds>>

\* ------------------------------------------------------------------ credentials
\* JavaScript values.  A string is its sequence of UTF-16 code units, or its
\* name when only its identity matters ('msad'); a Buffer is its sequence of
\* bytes; a function and an opaque object are named; an array has items.  A
\* parameter that is left out is undefined.
Value(type, name, units, items) ==
    [type |-> type, name |-> name, units |-> units, items |-> items]
String(units) == Value("string", "", units, <<>>)
Name(name) == Value("string", name, <<>>, <<>>)
Buffer(bytes) == Value("buffer", "", bytes, <<>>)
Undefined == Value("undefined", "", <<>>, <<>>)
Null == Value("null", "", <<>>, <<>>)
Function(name) == Value("function", name, <<>>, <<>>)
Object(name) == Value("object", name, <<>>, <<>>)
Array(items) == Value("array", "", <<>>, items)

\* Code units of 'a' and of the euro sign (above 255: two non-zero bytes).
CodeUnit == {97, 8364}

RECURSIVE UnitsUpTo(_)
UnitsUpTo(n) ==
    IF n = 0 THEN {<<>>}
    ELSE LET shorter == UnitsUpTo(n - 1)
         IN  shorter \cup {Append(s, u) : s \in {x \in shorter : Len(x) = n - 1}, u \in CodeUnit}

Credentials == {String(units) : units \in UnitsUpTo(MaxCredLen)}
EncodingTypes ==
    {Null, Undefined, Name(""), Name("msad"), Name("ssha"),
     Function("reverse"), Function("fixed"), Object("scheme")}

\* `"${credential}"`: the credential between two double quotes (code 34).
Quoted(units) == <<34>> \o units \o <<34>>

\* 'utf8' in place of 'utf16le', for code units below 128: one byte each.
Latin(units) == [i \in 1..Len(units) |-> units[i] % 256]
\* new Buffer(text, 'utf16le'): two bytes for each code unit, low byte first.
Utf16le(units) ==
    [i \in 1..(2 * Len(units)) |->
        IF i % 2 = 1 THEN units[(i + 1) \div 2] % 256 ELSE units[i \div 2] \div 256]

\* The functions a caller passes as encoding type: one that reverses the
\* credential and one that returns the same Buffer for every credential.
Reverse(units) == [i \in 1..Len(units) |-> units[Len(units) + 1 - i]]
Call(name, credential) ==
    IF name = "reverse" THEN String(Reverse(credential.units)) ELSE Buffer(<<0>>)

\* !(encodingType) (line 272): null, undefined and '' are falsy.
Falsy(value) ==
    \/ value.type \in {"null", "undefined"}
    \/ value = String(<<>>)

\* encodeCredential (lines 271-281).
encodeCredential(credential, encodingType) ==
    IF Falsy(encodingType) THEN credential
    ELSE IF encodingType = Name("msad") THEN Buffer(Utf16le(Quoted(credential.units)))
    ELSE IF encodingType.type = "function" THEN Call(encodingType.name, credential)
    ELSE Undefined

\* ------------------------------------------------------------------ operations
\* The public operations that go through $performAsyncLdapOperation.
Methods == {"add", "compare", "delete", "modify", "modifySimple", "changeCredential"}

IsDefined(arg) == arg.type # "undefined"
\* A default parameter value (line 216): it replaces an undefined argument.
Default(arg, value) == IF IsDefined(arg) THEN arg ELSE value

\* $performAsyncLdapOperation (lines 481-489): the calls its callback makes
\* on the acquired client, client[functionName].apply(client, filteredArgs).
performAsyncLdapOperation(functionName, args) ==
    <<[functionName |-> functionName, args |-> SelectSeq(args, IsDefined)]>>

\* add, compare, delete, modify (lines 183-206, 244-254, 326-337).
add(dn, attributes, controls) ==
    performAsyncLdapOperation("addAsync", <<dn, attributes, controls>>)
compare(dn, attribute, value, controls) ==
    performAsyncLdapOperation("compareAsync", <<dn, attribute, value, controls>>)
delete(dn, controls) ==
    performAsyncLdapOperation("delAsync", <<dn, controls>>)
modify(dn, changes, controls) ==
    performAsyncLdapOperation("modifyAsync", <<dn, changes, controls>>)

\* createLdapChange (lines 231-236): new Ldap.Change({operation, modification}).
createLdapChange(operation, attributes) ==
    [operation |-> operation, modification |-> attributes]

\* The object { [operation[1]]: operation[2] } (line 357).
Attributes(name, value) == name.name :> value

\* modifySimple mapping the triples in reverse order.
modifySimpleReversed(dn, operations) ==
    modify(dn,
           Array([i \in 1..Len(operations) |->
                     createLdapChange(operations[Len(operations) + 1 - i].items[1],
                                      Attributes(operations[Len(operations) + 1 - i].items[2],
                                                 operations[Len(operations) + 1 - i].items[3]))]),
           Undefined)
\* modifySimple(dn, ...operations) (lines 353-363).
modifySimple(dn, operations) ==
    modify(dn,
           Array([i \in 1..Len(operations) |->
                     createLdapChange(operations[i].items[1],
                                      Attributes(operations[i].items[2], operations[i].items[3]))]),
           Undefined)

\* changeCredential writing the credential as it was given.
changeCredentialPlain(dn, credential, attributeName, encodingType) ==
    modifySimple(dn, <<Array(<<Name("replace"),
                               Default(attributeName, Name("userPassword")),
                               credential>>)>>)
\* changeCredential (lines 216-220).
changeCredential(dn, credential, attributeName, encodingType) ==
    modifySimple(dn, <<Array(<<Name("replace"),
                               Default(attributeName, Name("userPassword")),
                               encodeCredential(credential, Default(encodingType, Null))>>)>>)

\* The arguments the operations are called with.
Dn == Name("cn=Test Group")
Optional(value) == {value, Undefined}
Triples ==
    {Array(<<Name("add"), Name("url"), Name("a")>>),
     Array(<<Name("replace"), Name("cn"), Name("b")>>),
     Array(<<Name("delete"), Name("url"), Name("a")>>)}

RECURSIVE TriplesUpTo(_)
TriplesUpTo(n) ==
    IF n = 0 THEN {<<>>}
    ELSE LET shorter == TriplesUpTo(n - 1)
         IN  shorter \cup {Append(s, x) : s \in {y \in shorter : Len(y) = n - 1}, x \in Triples}

Arguments(method) ==
    CASE method = "add" ->
            {<<Dn, a, c>> : a \in Optional(Object("attributes")),
                            c \in Optional(Object("controls"))}
      [] method = "compare" ->
            {<<Dn, Name("cn"), v, c>> : v \in Optional(Name("Test Group")),
                                        c \in Optional(Object("controls"))}
      [] method = "delete" ->
            {<<Dn, c>> : c \in Optional(Object("controls"))}
      [] method = "modify" ->
            {<<Dn, ch, c>> :
                ch \in Optional(Array(<<createLdapChange(Name("add"),
                                                         Attributes(Name("url"), Name("a")))>>)),
                c \in Optional(Object("controls"))}
      [] method = "modifySimple" ->
            {<<Dn>> \o operations : operations \in TriplesUpTo(MaxTriples)}
      [] method = "changeCredential" ->
            {<<Dn, credential, attributeName, encodingType>> :
                credential \in Credentials,
                attributeName \in Optional(Name("unicodePwd")),
                encodingType \in {Undefined, Name("msad"), Function("reverse")}}
      [] OTHER -> {}

\* The provider calls a call of the method with these arguments makes.
ProviderCalls(method, args) ==
    CASE method = "add" -> add(args[1], args[2], args[3])
      [] method = "compare" -> compare(args[1], args[2], args[3], args[4])
      [] method = "delete" -> delete(args[1], args[2])
      [] method = "modify" -> modify(args[1], args[2], args[3])
      [] method = "modifySimple" -> modifySimple(args[1], Tail(args))
      [] method = "changeCredential" ->
            changeCredential(args[1], args[2], args[3], args[4])

\* .tap on every operation, compare included.
TapsAll(method) == method \in Methods
\* add, delete and modify end with .tap(() => EventLogger.log(...)) (lines 186,
\* 247, 329); modifySimple and changeCredential end in modify; compare has none.
Taps(method) == method # "compare"

\* EventLogger.log calls the tap-handler makes: it runs when the promise of
\* $performAsyncLdapOperation is resolved.
SuccessLogs(method, promise) ==
    IF Taps(method) /\ promise.state = "resolved" THEN 1 ELSE 0

\* The promise .tap returns: the promise before it, or a rejection with what
\* the handler threw when a 'log' listener throws inside EventLogger.log.
Tap(method, promise, listenerThrows) ==
    IF SuccessLogs(method, promise) = 1 /\ listenerThrows
    THEN Rejected("ListenerThrew", NoError)
    ELSE promise

\* What the directory answers an operation with.
Answered(value) == [ok |-> TRUE, value |-> value]
Refused == [ok |-> FALSE, value |-> "none"]
Answers == {Answered("true"), Answered("false"), Refused}

\* The operation (lines 481-482) up to this.acquire().
StartOperation(t, method) ==
    /\ CanStart(t)
    /\ tasks' = [tasks EXCEPT ![t] = [IdleTask EXCEPT !.pc = "queued", !.kind = method]]
    /\ invoked' = [invoked EXCEPT ![t] = <<>>]
    /\ acquire(t)
    /\ monitor' = Observe("request", NoConn)
    /\ event' = NoEvent
    /\ UNCHANGED <<lifeVars, connState, holder, destroyCalls, created, probe, codec, streams, loggerVars>>

\* The callback of $performAsyncLdapOperation runs on the acquired client;
\* args are the arguments the operation was called with.
InvokeOperation(t, args) ==
    /\ tasks[t].pc = "granted"
    /\ tasks[t].kind \in Methods
    /\ tasks' = [tasks EXCEPT ![t].pc = "running"]
    /\ invoked' = [invoked EXCEPT ![t] =
                      @ \o [i \in 1..Len(ProviderCalls(tasks[t].kind, args)) |->
                               [conn |-> tasks[t].conn,
                                given |-> args,
                                functionName |-> ProviderCalls(tasks[t].kind, args)[i].functionName,
                                args |-> ProviderCalls(tasks[t].kind, args)[i].args]]]
    /\ event' = NoEvent
    /\ UNCHANGED <<lifeVars, poolVars, monitor, probe, codec, streams, loggerVars>>

\* The directory answers: the promise of the callback settles, the
\* finally-handler of withConnection (lines 460-470, dispose false) releases
\* the client and the tap-handler, if any, runs.
OperationAnswered(t, answer, listenerThrows) ==
    LET c == tasks[t].conn
        method == tasks[t].kind
        cb == IF answer.ok THEN Resolved(answer.value)
              ELSE Rejected("OperationError", NoError)
    IN  /\ tasks[t].pc = "running"
        /\ method \in Methods
        /\ listenerThrows => listeners # <<>> /\ SuccessLogs(method, cb) = 1
        /\ tasks' = [tasks EXCEPT ![t] = IdleTask]
        /\ invoked' = [invoked EXCEPT ![t] = <<>>]
        /\ IF FinallyRuns(cb) THEN ClientRelease(t, c) ELSE UNCHANGED <<poolVars, monitor>>
        /\ event' = [type |-> "completed", kind |-> method, dispose |-> FALSE, conn |-> c,
                     calls |-> invoked[t], answer |-> answer, cb |-> cb,
                     result |-> Tap(method, cb, listenerThrows),
                     logs |-> SuccessLogs(method, cb),
                     rel |-> Releases(c), disp |-> Disposals(c)]
        /\ UNCHANGED <<lifeVars, probe, codec, streams, loggerVars>>

\* The acquire of the operation was rejected: its callback never runs.
OperationAcquireRejected(t) ==
    /\ tasks[t].pc = "failed"
    /\ tasks[t].kind \in Methods
    /\ Finally(t, BindOk, Rejected(tasks[t].error, NoError))
    /\ UNCHANGED auxVars

NextOperations ==
    \/ \E t \in Task, method \in Methods : StartOperation(t, method)
    \/ AllocateResource
    \/ \E c \in Conn : BindSucceeds(c)
    \/ \E c \in Conn : BindFails(c)
    \/ \E c \in Conn : Dispatch(c)
    \/ \E t \in Task : RequestTimeout(t)
    \/ \E c \in Conn : IdleTimeout(c)
    \/ \E t \in Task : \E args \in Arguments(tasks[t].kind) : InvokeOperation(t, args)
    \/ \E t \in Task, a \in Answers, thr \in BOOLEAN : OperationAnswered(t, a, thr)
    \/ \E t \in Task : OperationAcquireRejected(t)

\* ------------------------------------------------------------------ search
\* The entries a directory may return (entry.object).
Entry == {"e1", "e2"}

\* The search of a task.  stage: none | calling (withConnection in progress)
\* | open (the handlers of lines 390-396 are attached) | failed (searchAsync
\* rejected) | stuck (the acquire failed).  results is the array of line 387,
\* emitted what the stream has delivered, ended and errored what it has
\* signalled and first which of the two it signalled first, promise the
\* promise search returned (line 384).
NoStream ==
    [stage |-> "none", conn |-> NoConn, results |-> <<>>, emitted |-> <<>>,
     ended |-> FALSE, errored |-> FALSE, first |-> "none", promise |-> Pending]

First(s, signal) == IF s.first = "none" THEN signal ELSE s.first

\* resolve and reject of the promise of line 384 settle it once.
Settle(promise, outcome) == IF promise.state = "pending" THEN outcome ELSE promise

CanStartSearch(t) == CanStart(t) /\ streams[t].stage \notin {"calling", "open"}

\* search(baseDn, filter) (lines 376-385) up to this.acquire().
StartSearch(t) ==
    /\ CanStartSearch(t)
    /\ tasks' = [tasks EXCEPT ![t] = [IdleTask EXCEPT !.pc = "queued", !.kind = "search"]]
    /\ streams' = [streams EXCEPT ![t] = [NoStream EXCEPT !.stage = "calling"]]
    /\ acquire(t)
    /\ monitor' = Observe("request", NoConn)
    /\ event' = NoEvent
    /\ UNCHANGED <<lifeVars, connState, holder, destroyCalls, created, probe, codec, invoked, loggerVars>>

\* The callback of line 385 runs: client.searchAsync(baseDn, searchOptions).
SearchCallback(t) ==
    /\ tasks[t].pc = "granted"
    /\ tasks[t].kind = "search"
    /\ tasks' = [tasks EXCEPT ![t].pc = "running"]
    /\ event' = NoEvent
    /\ UNCHANGED <<poolVars, monitor, probe, auxVars>>

\* searchAsync resolves with the stream: the then-handler (lines 386-397)
\* attaches its handlers and returns nothing, so the promise of the callback
\* resolves and the finally-handler of withConnection runs in the same turn.
SearchResultArrives(t) ==
    /\ tasks[t].pc = "running"
    /\ tasks[t].kind = "search"
    /\ streams' = [streams EXCEPT ![t].stage = "open", ![t].conn = tasks[t].conn]
    /\ Finally(t, BindOk, Resolved("undefined"))
    /\ UNCHANGED <<lifeVars, codec, invoked, loggerVars>>

\* searchAsync rejects: .catch(reject) (line 398) rejects the search and the
\* promise of the callback resolves.
SearchRequestFails(t) ==
    /\ tasks[t].pc = "running"
    /\ tasks[t].kind = "search"
    /\ streams' = [streams EXCEPT
                      ![t].stage = "failed",
                      ![t].conn = tasks[t].conn,
                      ![t].promise = Settle(@, Rejected("SearchError", NoError))]
    /\ Finally(t, BindOk, Resolved("undefined"))
    /\ UNCHANGED <<lifeVars, codec, invoked, loggerVars>>

\* The acquire of withConnection was rejected: nothing handles the rejection
\* of the promise withConnection returned, so the search stays pending.
SearchAcquireRejected(t) ==
    /\ tasks[t].pc = "failed"
    /\ tasks[t].kind = "search"
    /\ streams' = [streams EXCEPT ![t].stage = "stuck"]
    /\ Finally(t, BindOk, Rejected(tasks[t].error, NoError))
    /\ UNCHANGED <<lifeVars, codec, invoked, loggerVars>>

Delivering(t) ==
    streams[t].stage = "open" /\ ~streams[t].ended /\ ~streams[t].errored

\* results.push(entry.object) with the entry put in front instead.
PushFront(results, entry) == <<entry>> \o results
\* The 'searchEntry' handler (line 393): results.push(entry.object).
Push(results, entry) == Append(results, entry)

\* The stream emits 'searchEntry'.
StreamEntry(t, e) ==
    /\ Delivering(t)
    /\ Len(streams[t].emitted) < MaxEntries
    /\ streams' = [streams EXCEPT ![t].results = Push(@, e),
                                  ![t].emitted = Append(@, e)]
    /\ event' = NoEvent
    /\ UNCHANGED <<lifeVars, poolVars, tasks, monitor, probe, codec, invoked, loggerVars>>

\* The 'error' handler rejecting only when no entry has arrived.
RejectWhenEmpty(s) ==
    IF s.results = <<>> THEN Settle(s.promise, Rejected("StreamError", NoError))
    ELSE s.promise
\* The 'error' handler (line 390): reject.
OnError(s) == Settle(s.promise, Rejected("StreamError", NoError))

\* The stream emits 'error' (once('error', ...): the handler runs one time).
StreamError(t) ==
    /\ streams[t].stage = "open"
    /\ ~streams[t].errored
    /\ streams' = [streams EXCEPT ![t].errored = TRUE,
                                  ![t].first = First(streams[t], "error"),
                                  ![t].promise = OnError(streams[t])]
    /\ event' = NoEvent
    /\ UNCHANGED <<lifeVars, poolVars, tasks, monitor, probe, codec, invoked, loggerVars>>

\* The stream emits 'end': the handler of line 396 resolves with the array.
StreamEnd(t) ==
    /\ streams[t].stage = "open"
    /\ ~streams[t].ended
    /\ streams' = [streams EXCEPT ![t].ended = TRUE,
                                  ![t].first = First(streams[t], "end"),
                                  ![t].promise = Settle(@, Resolved(streams[t].results))]
    /\ event' = NoEvent
    /\ UNCHANGED <<lifeVars, poolVars, tasks, monitor, probe, codec, invoked, loggerVars>>

NextSearch ==
    \/ \E t \in Task : StartSearch(t)
    \/ AllocateResource
    \/ \E c \in Conn : BindSucceeds(c)
    \/ \E c \in Conn : BindFails(c)
    \/ \E c \in Conn : Dispatch(c)
    \/ \E t \in Task : RequestTimeout(t)
    \/ \E c \in Conn : IdleTimeout(c)
    \/ \E t \in Task : SearchCallback(t)
    \/ \E t \in Task : SearchResultArrives(t)
    \/ \E t \in Task : SearchRequestFails(t)
    \/ \E t \in Task : SearchAcquireRejected(t)
    \/ \E t \in Task, e \in Entry : StreamEntry(t, e)
    \/ \E t \in Task : StreamError(t)
    \/ \E t \in Task : StreamEnd(t)

\* ------------------------------------------------------------------ logger
\* EventLogger (src/src/EventLogger.js).  A log event is identified by its
\* number in the order of production.
listenerCount == Len(listeners)
Registered(l) == \E i \in 1..Len(listeners) : listeners[i] = l

\* this._emit reaching the listener registered first and no other.
OriginalEmitFirstOnly(message) ==
    received' = [l \in Listener |->
                    IF listeners # <<>> /\ listeners[1] = l
                    THEN Append(received[l], message) ELSE received[l]]

\* EventEmitter.prototype.emit, kept as this._emit (line 75): every listener
\* is called with the event, in registration order.
OriginalEmit(message) ==
    received' = [l \in Listener |->
                    IF Registered(l) THEN Append(received[l], message) ELSE received[l]]

\* The listeners one emission calls, in the order of the calls: the order of
\* their registration.
CallOrder == listeners

\* An emit that buffers without the cap of lines 86-89.
emitUncapped(message) ==
    IF listenerCount > 0
    THEN /\ OriginalEmit(message)
         /\ UNCHANGED eventBuffer
    ELSE /\ eventBuffer' = Append(eventBuffer, message)
         /\ UNCHANGED received

\* An emit that makes room by dropping the newest buffered event.
emitEvictsNewest(message) ==
    IF listenerCount > 0
    THEN /\ OriginalEmit(message)
         /\ UNCHANGED eventBuffer
    ELSE /\ eventBuffer' = Append(IF Len(eventBuffer) > 99
                                  THEN SubSeq(eventBuffer, 1, Len(eventBuffer) - 1)
                                  ELSE eventBuffer,
                                  message)
         /\ UNCHANGED received

\* The overriding emit of lines 78-95 for a 'log' event.
emit(message) ==
    IF listenerCount > 0
    THEN /\ OriginalEmit(message)
         /\ UNCHANGED eventBuffer
    ELSE /\ eventBuffer' = Append(IF Len(eventBuffer) > 99 THEN Tail(eventBuffer)
                                  ELSE eventBuffer,
                                  message)
         /\ UNCHANGED received

\* log(message, metadata) calling this.emit, the overriding function.
logThroughEmit(message) == emit(message)
\* log(message, metadata) (lines 107-109): this._emit('log', message, metadata).
log(message) ==
    /\ OriginalEmit(message)
    /\ UNCHANGED eventBuffer

\* The application, or a component, calls EventLogger.emit('log', ...).
Emit ==
    /\ emitted < MaxEmits
    /\ emitted' = emitted + 1
    /\ emit(emitted + 1)
    /\ event' = [type |-> "emitted", message |-> emitted + 1, listenerCount |-> listenerCount,
                 called |-> IF listenerCount > 0 THEN CallOrder ELSE <<>>]
    /\ UNCHANGED <<lifeVars, poolVars, tasks, monitor, probe, codec, streams, invoked, listeners>>

\* A component calls EventLogger.log(message, metadata).
Log ==
    /\ emitted < MaxEmits
    /\ emitted' = emitted + 1
    /\ log(emitted + 1)
    /\ event' = [type |-> "logged", message |-> emitted + 1, listenerCount |-> listenerCount,
                 called |-> CallOrder]
    /\ UNCHANGED <<lifeVars, poolVars, tasks, monitor, probe, codec, streams, invoked, listeners>>

Reversed(s) == [i \in 1..Len(s) |-> s[Len(s) + 1 - i]]

\* A 'newListener' handler that empties the buffer newest first.
newListenerNewestFirst(l) ==
    IF Len(eventBuffer) > 0
    THEN /\ received' = [received EXCEPT ![l] = @ \o Reversed(eventBuffer)]
         /\ eventBuffer' = <<>>
    ELSE UNCHANGED <<received, eventBuffer>>

\* The 'newListener' handler (lines 61-72) for a 'log' listener: while the
\* buffer holds an event, the oldest is shifted out and handed to listenerFn.
newListener(l) ==
    IF Len(eventBuffer) > 0
    THEN /\ received' = [received EXCEPT ![l] = @ \o eventBuffer]
         /\ eventBuffer' = <<>>
    ELSE UNCHANGED <<received, eventBuffer>>

\* on('log', listenerFn): 'newListener' is emitted, then the listener is added.
AddListener(l) ==
    /\ ~Registered(l)
    /\ newListener(l)
    /\ listeners' = Append(listeners, l)
    /\ event' = [type |-> "subscribed", listener |-> l, replay |-> eventBuffer,
                 listenerCount |-> listenerCount]
    /\ UNCHANGED <<lifeVars, poolVars, tasks, monitor, probe, codec, streams, invoked, emitted>>

\* removeListener('log', listenerFn).
RemoveListener(l) ==
    /\ Registered(l)
    /\ listeners' = SelectSeq(listeners, LAMBDA x : x # l)
    /\ event' = [type |-> "unsubscribed", listener |-> l, listenerCount |-> listenerCount]
    /\ UNCHANGED <<lifeVars, poolVars, tasks, monitor, probe, codec, streams, invoked,
                   eventBuffer, received, emitted>>

NextLogger ==
    \/ Emit
    \/ Log
    \/ \E l \in Listener : AddListener(l)
    \/ \E l \in Listener : RemoveListener(l)

\* ------------------------------------------------------------------ specification
NoProbe == [error |-> NoError, called |-> FALSE, verdict |-> FALSE]
NoCodec == [called |-> FALSE, credential |-> String(<<>>), scheme |-> Null, result |-> Undefined]

\* The state after require() and new PooledLdapConnection(...): the pool is
\* empty, nobody has called anything and the logger has no listener.
InitPool ==
    /\ connState = [c \in Conn |-> "none"]
    /\ holder = [c \in Conn |-> {}]
    /\ destroyCalls = [c \in Conn |-> 0]
    /\ requests = <<>>
    /\ created = 0
    /\ tasks = [t \in Task |-> IdleTask]
    /\ event = NoEvent
    /\ monitor = NoSequence
    /\ streams = [t \in Task |-> NoStream]
    /\ invoked = [t \in Task |-> <<>>]
    /\ binds = [c \in Conn |-> <<>>]
    /\ ending = NotEnding

InitLogger ==
    /\ eventBuffer = <<>>
    /\ listeners = <<>>
    /\ received = [l \in Listener |-> <<>>]
    /\ emitted = 0

Init ==
    /\ InitPool
    /\ InitLogger
    /\ probe = NoProbe
    /\ codec = NoCodec

Next ==
    \/ \E t \in Task : StartAcquire(t)
    \/ \E t \in Task, d \in BOOLEAN : StartWithConnection(t, d)
    \/ \E t \in Task : StartTestCredential(t)
    \/ AllocateResource
    \/ \E c \in Conn : BindSucceeds(c)
    \/ \E c \in Conn : BindFails(c)
    \/ \E c \in Conn : Dispatch(c)
    \/ \E t \in Task : RequestTimeout(t)
    \/ \E c \in Conn : IdleTimeout(c)
    \/ \E t \in Task : ThenCallbackReturns(t)
    \/ \E t \in Task : ThenCallbackThrows(t)
    \/ \E t \in Task, ok \in BOOLEAN : OperationSettles(t, ok)
    \/ \E t \in Task, b \in BindInputs : BindAnswered(t, b)
    \/ \E t \in Task : AcquireRejected(t)
    \/ \E t \in Task : AcquireResolves(t)
    \/ \E t \in Task : AcquireFails(t)
    \/ \E t \in Task : UserRelease(t)
    \/ \E t \in Task : UserDispose(t)
    \/ \E t \in Task : UserReleaseAfterDispose(t)

Spec == Init /\ [][Next]_vars

\* The life of the connections: the calls of Next, a second dispose() of a
\* disposed client, and shutdown().
NextLifecycle ==
    \/ Next
    \/ \E t \in Task : UserDisposeAfterDispose(t)
    \/ Shutdown
    \/ \E c \in Conn : EndDisposes(c)
    \/ EndResolves

SpecLifecycle == Init /\ [][NextLifecycle]_vars

\* A direct call of isCredentialFailedError on any error object.
ErrorInputs ==
    {ErrorRecord(code, FALSE, <<>>) : code \in Codes} \cup
    {ErrorRecord(code, TRUE, m) : code \in Codes, m \in Messages}

InitClassify ==
    /\ InitPool
    /\ InitLogger
    /\ codec = NoCodec
    /\ probe \in {[error |-> e, called |-> FALSE, verdict |-> FALSE] : e \in ErrorInputs}

Classify ==
    /\ ~probe.called
    /\ probe' = [probe EXCEPT !.called = TRUE,
                              !.verdict = isCredentialFailedError(probe.error)]
    /\ UNCHANGED <<poolVars, tasks, event, monitor, auxVars>>

NextClassify == Classify

SpecClassify == InitClassify /\ [][NextClassify]_vars

\* A direct call of encodeCredential on any credential and encoding type.
InitEncode ==
    /\ InitPool
    /\ InitLogger
    /\ probe = NoProbe
    /\ codec \in {[called |-> FALSE, credential |-> c, scheme |-> e, result |-> Undefined] :
                     c \in Credentials, e \in EncodingTypes}

Encode ==
    /\ ~codec.called
    /\ codec' = [codec EXCEPT !.called = TRUE,
                              !.result = encodeCredential(codec.credential, codec.scheme)]
    /\ UNCHANGED <<lifeVars, poolVars, tasks, event, monitor, probe, streams, invoked, loggerVars>>

NextEncode == Encode

SpecEncode == InitEncode /\ [][NextEncode]_vars

\* Concurrent operations on the pool, with or without a 'log' listener that
\* the application registered when it started.
InitOperations ==
    /\ InitPool
    /\ eventBuffer = <<>>
    /\ listeners \in {<<>>, <<1>>}
    /\ received = [l \in Listener |-> <<>>]
    /\ emitted = 0
    /\ probe = NoProbe
    /\ codec = NoCodec

SpecOperations == InitOperations /\ [][NextOperations]_vars

\* The calls of Next with or without a 'log' listener, which may throw on the
\* log event of the release step of withConnection.
NextReleaseLog ==
    \/ Next
    \/ \E t \in Task, ok \in BOOLEAN : OperationSettlesListenerThrows(t, ok)

SpecReleaseLog == InitOperations /\ [][NextReleaseLog]_vars

\* The logger on its own: events produced, listeners added and removed.
SpecLogger == Init /\ [][NextLogger]_vars

\* The logger after Backlog events were emitted with no listener registered:
\* they sit in the buffer, numbered up to 0 in the order of their emission.
InitBacklog ==
    /\ InitPool
    /\ eventBuffer = [i \in 1..Backlog |-> i - Backlog]
    /\ listeners = <<>>
    /\ received = [l \in Listener |-> <<>>]
    /\ emitted = 0
    /\ probe = NoProbe
    /\ codec = NoCodec

SpecBacklog == InitBacklog /\ [][NextLogger]_vars

\* Concurrent searches on the pool.
SpecSearch == Init /\ [][NextSearch]_vars

\* ------------------------------------------------------------------ claims
InCall(t) == tasks[t].pc \in {"granted", "running", "holding"}
ScopedCall(e) ==
    e.type = "settled" /\ e.kind \in {"withConnection", "testCredential"} /\ e.conn # NoConn

C2_OpenAtMostMax ==
    /\ Cardinality(Idle) + Cardinality(Acquired) <= PoolMax
    /\ getPoolStatistics.allocated <= getPoolStatistics.max

C2_Witness ==
    /\ Cardinality(Idle) + Cardinality(Acquired) = PoolMax
    /\ requests # <<>>
    /\ created = MaxCreated

Exhausted == Cardinality(Acquired) = PoolMax

\* C3: while all max connections are acquired, a queued acquire stays queued
\* or fails with the acquisition timeout, and no connection is created; it is
\* granted only from a state where a connection has been given back.
C3_WaitsWhenExhausted ==
    [][\A t \in Task :
          tasks[t].pc = "queued" /\ Exhausted
          => /\ \/ tasks'[t].pc = "queued"
                \/ tasks'[t].pc = "failed" /\ tasks'[t].error = "AcquisitionTimeout"
             /\ created' = created
             /\ Cardinality(Members') <= PoolMax]_vars

C3_Witness ==
    \E t \in Task :
       /\ tasks[t].pc = "failed"
       /\ tasks[t].error = "AcquisitionTimeout"
       /\ Exhausted

\* C4: the available statistic is max minus the number of connections callers
\* hold; the step that grants a connection lowers it by one and the step in
\* which the holder releases the connection (client.release() called by the
\* caller or by withConnection) raises it by one.
C4_AvailableTracksAcquired ==
    /\ [](getPoolStatistics.available = PoolMax - Cardinality(Held))
    /\ [][\A t \in Task :
             /\ tasks[t].pc = "queued" /\ tasks'[t].pc = "granted"
                => getPoolStatistics'.available = getPoolStatistics.available - 1
             /\ InCall(t) /\ ~InCall(t)' /\ event'.type = "settled" /\ ~event'.dispose
                => getPoolStatistics'.available = getPoolStatistics.available + 1]_vars

C4_Witness ==
    /\ event.type = "settled" /\ event.kind = "release"
    /\ getPoolStatistics.available = PoolMax

\* C5: when acquire, release, acquire follow each other with no other pool
\* activity, the second acquire is served with a connection that existed
\* before and no client is created.
C5_IdleReuse ==
    /\ monitor.stage # "created"
    /\ monitor.stage = "reused" => monitor.delta = 0 /\ monitor.conn <= monitor.n

C5_Witness == monitor.stage = "reused" /\ created = 1

\* C6: the step in which a holder disposes of its connection raises available
\* by one, undoing the grant, and lowers the allocated count by one; so does
\* every completed testCredential call.
C6_DisposeRestoresAvailable ==
    [][\A t \in Task :
          /\ InCall(t) /\ ~InCall(t)' /\ event'.type = "settled" /\ event'.dispose
             => /\ getPoolStatistics'.available = getPoolStatistics.available + 1
                /\ getPoolStatistics'.allocated = getPoolStatistics.allocated - 1
          /\ tasks[t].pc = "queued" /\ tasks'[t].pc = "granted"
             => getPoolStatistics'.available = getPoolStatistics.available - 1]_vars

C6_Witness ==
    /\ ScopedCall(event) /\ event.kind = "testCredential"
    /\ getPoolStatistics.available = PoolMax
    /\ getPoolStatistics.allocated = 0

\* C7: a connection that has been disposed of stays disposed: it is never
\* idle again and no caller is handed it, also after release is called on it.
C7_DisposedNeverReturns ==
    /\ [](\A c \in Conn :
            destroyCalls[c] > 0
            => /\ connState[c] = "disposed"
               /\ \A t \in Task : InCall(t) => tasks[t].conn # c)
    /\ [][\A c \in Conn : connState[c] = "disposed" => connState'[c] = "disposed"]_vars

C7_Witness ==
    /\ event.type = "settled" /\ event.kind = "staleRelease"
    /\ connState[event.conn] = "disposed"
    /\ created = MaxCreated
    /\ \E t \in Task : InCall(t)

\* C8: whatever the bind of testCredential is answered with, the probing
\* connection is disposed of and is not released.
C8_ProbeDisposed ==
    ScopedCall(event) /\ event.kind = "testCredential"
    => /\ event.disp = 1
       /\ event.rel = 0
       /\ connState[event.conn] = "disposed"

C8_Witness ==
    /\ ScopedCall(event) /\ event.kind = "testCredential"
    /\ ~event.bind.ok
    /\ event.cb.value = "BindError"
    /\ event.disp = 1

\* The classification C10 states: code 49, or the message 'Invalid
\* Credentials', or the Active Directory marker anywhere in the message.
InvalidCredential(error) ==
    \/ error.code = InvalidCredentialsCode
    \/ /\ error.hasMessage
       /\ \/ error.lde_message = InvalidCredentialsMessage
          \/ IndexOf(error.lde_message, ActiveDirectoryMarker) # -1

\* C9: testCredential resolves true when the bind succeeds, rejects with
\* CredentialValidationFailed when the bind error is an invalid credential,
\* and rejects with the bind error unchanged for every other bind error.
C9_Outcomes ==
    ScopedCall(event) /\ event.kind = "testCredential"
    => event.result =
          IF event.bind.ok THEN Resolved("true")
          ELSE IF InvalidCredential(event.bind.error)
               THEN Rejected("CredentialValidationFailed", NoError)
               ELSE Rejected("BindError", event.bind.error)

\* C10: isCredentialFailedError returns true exactly for code 49, the message
\* 'Invalid Credentials', or a message holding the marker at any position.
C10_Classification ==
    probe.called => probe.verdict = InvalidCredential(probe.error)

\* C11: a search whose stream delivered k entries and then signalled
\* completion, with no error before, has resolved with exactly those k
\* entries in the order of their emission.
C11_ResolvesWithEntriesInOrder ==
    \A t \in Task :
       streams[t].first = "end"
       => /\ streams[t].promise.state = "resolved"
          /\ streams[t].promise.value = streams[t].emitted
          /\ Len(streams[t].promise.value) = Len(streams[t].emitted)

C11_Witness ==
    \E t \in Task :
       /\ streams[t].first = "end"
       /\ streams[t].promise.state = "resolved"
       /\ streams[t].emitted = <<"e2", "e1">>

\* C12: once a search stream has signalled an error before any completion,
\* the search is rejected with that error, whatever number of entries came
\* before; it is never resolved, also after a later completion signal.
C12_ErrorRejects ==
    \A t \in Task :
       streams[t].first = "error"
       => /\ streams[t].promise = Rejected("StreamError", NoError)
          /\ streams[t].promise.state # "resolved"

C12_Witness ==
    \E t \in Task :
       /\ streams[t].first = "error" /\ streams[t].ended
       /\ streams[t].promise = Rejected("StreamError", NoError)
       /\ Len(streams[t].emitted) = MaxEntries

\* C13: while the stream of a search is still delivering (it has signalled
\* neither completion nor error), the connection of the search is acquired
\* by it and is not in the idle set.
C13_ReleasedAfterSettle ==
    \A t \in Task :
       Delivering(t)
       => /\ connState[streams[t].conn] = "acquired"
          /\ streams[t].conn \notin Idle

\* C14: add, delete and modify resolve whenever the directory operation
\* succeeded, also when a 'log' listener throws while the success log event
\* is delivered.
C14_LogFailureSwallowed ==
    /\ event.type = "completed"
    /\ event.kind \in {"add", "delete", "modify"}
    /\ event.answer.ok
    => event.result.state = "resolved"

TheCall(t) == invoked[t][1]
OnOwnConnection(t) ==
    /\ Len(invoked[t]) = 1
    /\ TheCall(t).conn = tasks[t].conn
    /\ connState[TheCall(t).conn] = "acquired"
    /\ holder[TheCall(t).conn] = {t}

IsQuotedBinary(value, credential) ==
    LET n == Len(credential.units)
        unit(i) == value.units[2 * i - 1] + 256 * value.units[2 * i]
    IN  /\ value.type = "buffer"
        /\ Len(value.units) = 2 * (n + 2)
        /\ unit(1) = 34 /\ unit(n + 2) = 34
        /\ \A i \in 1..n : unit(i + 1) = credential.units[i]
        /\ \A i \in 1..Len(value.units) : value.units[i] \in 0..255

\* C17: changeCredential makes one modify call, on the connection it
\* acquired, with one change: a replace of attributeName ('userPassword' when
\* left out) by the encoded credential, which is what the function returned
\* when the encoding scheme is a function.
C17_OneReplace ==
    /\ \A t \in Task :
          tasks[t].kind = "changeCredential" /\ tasks[t].pc = "running"
          => LET given == TheCall(t).given
                 args == TheCall(t).args
                 attribute == IF given[3].type = "undefined" THEN "userPassword"
                              ELSE given[3].name
                 change == args[2].items[1]
             IN  /\ OnOwnConnection(t)
                 /\ TheCall(t).functionName = "modifyAsync"
                 /\ Len(args) = 2
                 /\ args[1] = given[1]
                 /\ args[2].type = "array"
                 /\ Len(args[2].items) = 1
                 /\ change.operation = Name("replace")
                 /\ DOMAIN change.modification = {attribute}
                 /\ IF given[4].type = "function"
                    THEN change.modification[attribute] = Call(given[4].name, given[2])
                    ELSE IF given[4] = Name("msad")
                    THEN IsQuotedBinary(change.modification[attribute], given[2])
                    ELSE change.modification[attribute] = given[2]
    /\ event.type = "completed" /\ event.kind = "changeCredential" => Len(event.calls) = 1

C17_Witness ==
    \E t \in Task :
       /\ tasks[t].kind = "changeCredential" /\ tasks[t].pc = "running"
       /\ TheCall(t).given = <<Dn, String(<<8364, 97>>), Undefined, Function("reverse")>>
       /\ TheCall(t).args[2].items =
             <<[operation |-> Name("replace"),
                modification |-> [userPassword |-> String(<<97, 8364>>)]]>>

RECURSIVE DropTrailingUndefined(_)
DropTrailingUndefined(args) ==
    IF args = <<>> \/ IsDefined(args[Len(args)]) THEN args
    ELSE DropTrailingUndefined(SubSeq(args, 1, Len(args) - 1))

\* C19: the operation is invoked on the acquired connection with the given
\* arguments less the undefined ones at their end, so that every defined
\* argument arrives at the position it was given, and the caller gets the
\* result of the operation.
C19_ArgumentsKeepPosition ==
    /\ \A t \in Task :
          tasks[t].kind \in {"add", "compare", "delete", "modify"} /\ tasks[t].pc = "running"
          => LET given == TheCall(t).given
                 args == TheCall(t).args
             IN  /\ OnOwnConnection(t)
                 /\ args = DropTrailingUndefined(given)
                 /\ \A i \in 1..Len(given) :
                       IsDefined(given[i]) => i <= Len(args) /\ args[i] = given[i]
    /\ event.type = "completed" /\ event.kind = "compare" => event.result = event.cb

\* C20: a log event produced through log(message, metadata) while no 'log'
\* listener is registered is appended to the buffer, from which the first
\* listener that registers receives it.
C20_LogIsBuffered ==
    event.type = "logged" /\ event.listenerCount = 0
    => /\ eventBuffer # <<>>
       /\ eventBuffer[Len(eventBuffer)] = event.message

\* C21: in every reachable state, whatever emits, registrations and removals
\* came before, the event buffer holds at most 100 events.
C21_BufferAtMost100 == Len(eventBuffer) <= 100

\* An emit with no listener found the buffer full and evicted its oldest event.
C21_Witness ==
    /\ event.type = "emitted" /\ event.listenerCount = 0
    /\ Len(eventBuffer) = 100
    /\ eventBuffer[1] > 1 - Backlog

LastN(s, n) == IF Len(s) <= n THEN s ELSE SubSeq(s, Len(s) - n + 1, Len(s))

\* C22: an emit with no listener registered leaves in the buffer the most
\* recent 100 of the events it held followed by the new one: below 100 events
\* the new one is appended, at 100 the oldest is evicted and the new one is
\* appended at the end; the buffer is always in emission order, oldest first.
C22_KeepsMostRecentInOrder ==
    [][/\ event'.type = "emitted" /\ listeners = <<>>
          => /\ eventBuffer' = LastN(Append(eventBuffer, event'.message), 100)
             /\ (Len(eventBuffer) = 100
                   => eventBuffer' = Append(Tail(eventBuffer), event'.message))
       /\ \A i \in 1..(Len(eventBuffer') - 1) : eventBuffer'[i] < eventBuffer'[i + 1]]_vars

\* Two emits in a row evicted the two oldest events of a full buffer.
C22_Witness ==
    /\ event.type = "emitted" /\ event.listenerCount = 0
    /\ Len(eventBuffer) = 100
    /\ eventBuffer[1] > 2 - Backlog
    /\ eventBuffer[100] = event.message

IsPrefix(s, t) == Len(s) <= Len(t) /\ SubSeq(t, 1, Len(s)) = s

HasSubscribed(l) == Registered(l) \/ received[l] # <<>>

\* C24: only the first 'log' subscriber receives a replay: a listener that
\* registers after another one has been registered receives no buffered event
\* at its registration.
C24_OnlyFirstReplay ==
    /\ event.type = "subscribed"
    /\ \E l \in Listener \ {event.listener} : HasSubscribed(l)
    => event.replay = <<>>

\* C25: once a 'log' subscriber has registered the logger passes events
\* through for good: the buffer, emptied by that registration, never holds an
\* event again, whatever happens to the subscribers.
C25_PassthroughIsPermanent ==
    (\E l \in Listener : HasSubscribed(l)) => eventBuffer = <<>>

Joined(c) == connState[c] \in {"idle", "acquired"}

C28_ShutdownDisposesAll ==
    ending.state = "resolved"
    => \A c \in Conn :
          /\ connState[c] \in {"none", "failed", "disposed"}
          /\ connState[c] = "disposed" => destroyCalls[c] >= 1

\* shutdown() resolved after the pool disposed of a connection it held.
C28_Witness ==
    /\ ending.state = "resolved"
    /\ \E c \in ending.disposed : connState[c] = "disposed" /\ destroyCalls[c] = 1

\* C29: dispose() on a connection that is disposed of already changes
\* nothing: the connections of the pool, its statistics and its queue are
\* what they were, and the client is not destroyed a second time.
C29_DisposeIdempotent ==
    [][event'.type = "settled" /\ event'.kind = "staleDispose"
          => /\ connState' = connState
             /\ destroyCalls' = destroyCalls
             /\ destroyCalls'[event'.conn] = 1
             /\ holder' = holder
             /\ requests' = requests
             /\ getPoolStatistics' = getPoolStatistics]_vars

\* dispose() was called on a client disposed of before, destroyed once.
C29_Witness ==
    /\ event.type = "settled" /\ event.kind = "staleDispose"
    /\ connState[event.conn] = "disposed"
    /\ destroyCalls[event.conn] = 1

\* C30: a search settles on every path: once the acquisition of its connection
\* has failed (the bind of a new connection failed, or the request timed out)
\* and withConnection has rejected, the promise search returned is rejected.
C30_SearchSettlesOnAcquireFailure ==
    \A t \in Task :
        streams[t].stage = "stuck" => streams[t].promise.state = "rejected"

\* C31: when the acquisition fails inside withConnection or testCredential,
\* the callback is not run, no connection is released or disposed of, and the
\* promise returned rejects with the acquisition error itself (the bind
\* failure or the acquisition timeout).
C31_AcquisitionErrorPropagates ==
    /\ event.type = "settled"
    /\ event.kind \in {"withConnection", "testCredential"}
    /\ event.conn = NoConn
    => /\ event.cb.state = "rejected"
       /\ event.cb.value \in {"BindFailure", "AcquisitionTimeout"}
       /\ event.result = event.cb
       /\ event.rel = 0
       /\ event.disp = 0

\* The tasks at work on connection c: a call whose callback holds the client,
\* and a search whose stream on c still delivers.
Users(c) ==
    {t \in Task : tasks[t].conn = c /\ tasks[t].pc \in {"granted", "running"}}
        \cup {t \in Task : Delivering(t) /\ streams[t].conn = c}

\* C32: a connection is used by one operation at a time: a connection some
\* operation is at work on, a search whose stream still delivers included, is
\* not in the idle set and is at work for no second task.
C32_OneOperationPerConnection ==
    \A c \in Conn :
        Users(c) # {} => c \notin Idle /\ Cardinality(Users(c)) = 1

\* C33: log delivery does not change what the pool does: when withConnection
\* has run its release step with a 'log' subscriber registered, also one that
\* throws on the log event of that step, the connection is back in the pool,
\* idle and held by nobody, as it is with no subscriber.
C33_ReleasedWhateverTheSubscriber ==
    /\ event.type = "settled"
    /\ event.kind = "withConnection"
    /\ ~event.dispose
    /\ event.conn # NoConn
    /\ listeners # <<>>
    => /\ event.rel = 1
       /\ connState[event.conn] = "idle"
       /\ holder[event.conn] = {}

====
